---- MODULE Spec2Model ----
(***************************************************************************)
(* Verification model of the shadow-writing backend (src/backend/app):     *)
(*   - the SSE event bus (sse_manager.py) and the progress stream          *)
(*     endpoint (main.py, progress_stream.generate);                       *)
(*   - the task store (db/task_db.py), the file workflow                   *)
(*     (routers/core.py, agent.py) and the per-chunk pipelines             *)
(*     (workflows.py, agents/parallel/*.py).                               *)
(* One task is modelled; its id is a constant prefix of every event id and *)
(* is left out of the ids, which are the millisecond counts.               *)
(***************************************************************************)
EXTENDS Integers, Sequences, FiniteSets, Bags, TLC

(* ------------------------------ bounds -------------------------------- *)
\* last value of the millisecond clock
MaxTime == 3
\* number of add_message calls of a run of the event bus
MaxEvents == 4
\* SSEManager(max_messages_per_task=...): the deque's maxlen, scaled down
max_messages_per_task == 3
\* the largest number of chunks of a transcript
MaxChunks == 2
\* the number of concurrent callers of call_fn
MaxCallers == 2
\* the number of LLM calls of a run without failures
MaxCalls == 4
\* the number of keys handed out before the last call of a run with failures
FewCalls == 3
\* the largest failure_count of a key of the pool
MaxPoolFailures == 1
\* the largest failure_count of the key of the single-key pool
MaxFailures == 7
\* the largest number of rotate_key calls
MaxSwitches == 1
\* SSEManager.message_ttl in ticks of the bus clock (300 s in the source)
message_ttl == 1
\* the most sentences of a transcript handed to the chunker
MaxSentences == 4
\* the most rate-limited calls reported to the monitor for one key
MaxHits == 1
\* ConcurrencyLimiter.max_concurrent (3 by default in the source)
max_concurrent == 1
\* the largest failure_count of the key of a pool with concurrent failures
MaxKeyFailures == 4

VARIABLES
  now,              \* int(time.time() * 1000)
  message_queues,   \* SSEManager.message_queues[task_id]: a sequence of events
  task_timestamps,  \* SSEManager.task_timestamps[task_id]; 0 when absent
  published,        \* history: every event add_message has appended, in order
  stream,           \* the local state of one progress_stream.generate()
  task,             \* the row of processing_tasks for the task, or NoTask
  wf,               \* the local state of _run_processing_workflow
  pipe,             \* chunk_id -> the ChunkProcessState and position of its pipeline
  custom,           \* astream's queue of custom stream events not yet consumed
  final_shadow_chunks,  \* Shadow_Writing_State.final_shadow_chunks
  clock,            \* time.time() as the key manager reads it, in centiseconds
  manager,          \* one APIKeyManager: _keys, _status, _total_switches
  monitor,          \* api_key_monitor.stats: key -> APIKeyStats
  caller,           \* caller -> the local state of its call_fn and get_key
  key_history,      \* history: per key, what its calls and cooldowns were
  cleanup,          \* history: the last run of cleanup_expired_messages
  chunker,          \* one call of Semantic_Chunking_Agent.split_into_chunks
  health            \* initialize_key_manager: the cold-start health check

sseVars == <<now, message_queues, task_timestamps, published, stream>>
taskVars == <<task, wf, pipe, custom, final_shadow_chunks>>
keyVars == <<clock, manager, monitor, caller, key_history>>
auxVars == <<cleanup, chunker, health>>
vars == <<now, message_queues, task_timestamps, published, stream,
          task, wf, pipe, custom, final_shadow_chunks,
          clock, manager, monitor, caller, key_history,
          cleanup, chunker, health>>

\* the chunk_id of a message that carries none
NoChunk == -1

\* the value of a missing last_event_id; "0" is what generate() falls back to
NoId == 0

\* the event types a producer of the bus publishes
EventTypes == {"progress", "chunk_completed", "completed"}

(* ------------------------------ SSEManager ---------------------------- *)

\* a faulty ring: a full queue keeps its entries and drops the new one
DequeAppendKeepsOldest(q, x, n) ==
  IF Len(q) < n THEN Append(q, x) ELSE q

\* deque(maxlen=n).append(x): the oldest entry is dropped when full
DequeAppend(q, x, n) ==
  IF Len(q) < n THEN Append(q, x) ELSE Append(Tail(q), x)

\* the id add_message gives a message that has none
NewEventId(t) == t

\* SSEManager.add_message(task_id, message) for a message without 'id';
\* chunk is the message's chunk_id (NoChunk for a message that has none)
AddMessage(type, chunk) ==
  LET msg == [seq |-> Len(published) + 1, id |-> NewEventId(now), type |-> type,
              chunk |-> chunk]
  IN /\ message_queues' = DequeAppend(message_queues, msg, max_messages_per_task)
     /\ task_timestamps' = now
     /\ published' = Append(published, msg)

\* SSEManager.get_messages(task_id, last_event_id)
RECURSIVE FilterAfter(_, _)
FilterAfter(msgs, last) ==
  IF msgs = <<>> THEN <<>>
  ELSE IF Head(msgs).id > last
       THEN <<Head(msgs)>> \o FilterAfter(Tail(msgs), last)
       ELSE FilterAfter(Tail(msgs), last)

get_messages(last_event_id) ==
  IF last_event_id # NoId THEN FilterAfter(message_queues, last_event_id)
  ELSE message_queues

\* SSEManager.get_latest_message(task_id): <<>> stands for None
get_latest_message ==
  IF message_queues = <<>> THEN <<>>
  ELSE <<message_queues[Len(message_queues)]>>

(* --------------------------- the event bus run ------------------------ *)

\* the clock advances by one millisecond
Tick ==
  /\ now < MaxTime
  /\ now' = now + 1
  /\ UNCHANGED <<message_queues, task_timestamps, published, stream>>
  /\ UNCHANGED taskVars
  /\ UNCHANGED keyVars
  /\ UNCHANGED auxVars

\* a producer publishes an event
Publish ==
  /\ Len(published) < MaxEvents
  /\ \E type \in EventTypes : AddMessage(type, NoChunk)
  /\ UNCHANGED <<now, stream>>
  /\ UNCHANGED taskVars
  /\ UNCHANGED keyVars
  /\ UNCHANGED auxVars

(* ------------------------ progress_stream.generate -------------------- *)

\* a client subscribes with last_event_id = the id of the stored event k, or
\* with none (k = 0); generate() yields the synthetic connected event
StreamConnect ==
  /\ stream.pc = "idle"
  /\ \E k \in 0..Len(message_queues) :
       stream' = [stream EXCEPT
                    !.pc = "connected",
                    !.last_event_id = IF k = 0 THEN NoId ELSE message_queues[k].id,
                    !.after = IF k = 0 THEN 0 ELSE message_queues[k].seq,
                    !.resumed = (k # 0)]
  /\ UNCHANGED <<now, message_queues, task_timestamps, published>>
  /\ UNCHANGED taskVars
  /\ UNCHANGED keyVars
  /\ UNCHANGED auxVars

\* messages = await sse_manager.get_messages(task_id, last_event_id)
StreamFetch ==
  /\ stream.pc = "connected"
  /\ stream' = [stream EXCEPT !.pc = "replay",
                              !.messages = get_messages(stream.last_event_id),
                              !.next = 1]
  /\ UNCHANGED <<now, message_queues, task_timestamps, published>>
  /\ UNCHANGED taskVars
  /\ UNCHANGED keyVars
  /\ UNCHANGED auxVars

\* for message in messages: yield ...
StreamSendCached ==
  /\ stream.pc = "replay"
  /\ stream.next <= Len(stream.messages)
  /\ stream' = [stream EXCEPT
                  !.received = Append(@, stream.messages[stream.next]),
                  !.next = @ + 1]
  /\ UNCHANGED <<now, message_queues, task_timestamps, published>>
  /\ UNCHANGED taskVars
  /\ UNCHANGED keyVars
  /\ UNCHANGED auxVars

\* last_sent_id = messages[-1]['id'] if messages else (last_event_id or "0")
StreamStartPolling ==
  /\ stream.pc = "replay"
  /\ stream.next > Len(stream.messages)
  /\ stream' = [stream EXCEPT
                  !.pc = "poll",
                  !.last_sent_id =
                     IF stream.messages # <<>>
                     THEN stream.messages[Len(stream.messages)].id
                     ELSE stream.last_event_id]
  /\ UNCHANGED <<now, message_queues, task_timestamps, published>>
  /\ UNCHANGED taskVars
  /\ UNCHANGED keyVars
  /\ UNCHANGED auxVars

\* the type that ends the polling loop
StreamClosesOn(type) == type = "completed"

\* one turn of the polling loop that finds a message to send
StreamPoll ==
  /\ stream.pc = "poll"
  /\ get_latest_message # <<>>
  /\ LET latest == get_latest_message[1]
     IN /\ latest.id # stream.last_sent_id
        /\ stream' = [stream EXCEPT
                        !.received = Append(@, latest),
                        !.last_sent_id = latest.id,
                        !.pc = IF StreamClosesOn(latest.type) THEN "closed" ELSE @]
  /\ UNCHANGED <<now, message_queues, task_timestamps, published>>
  /\ UNCHANGED taskVars
  /\ UNCHANGED keyVars
  /\ UNCHANGED auxVars

StreamInit ==
  stream = [pc |-> "idle", last_event_id |-> NoId, after |-> 0, resumed |-> FALSE,
            messages |-> <<>>, next |-> 1, last_sent_id |-> NoId,
            received |-> <<>>]

SSEInit ==
  /\ now = 1
  /\ message_queues = <<>>
  /\ task_timestamps = 0
  /\ published = <<>>
  /\ StreamInit

SSENext ==
  \/ Tick
  \/ Publish
  \/ StreamConnect
  \/ StreamFetch
  \/ StreamSendCached
  \/ StreamStartPolling
  \/ StreamPoll

(* ------------------------------- TaskDB ------------------------------- *)

\* what TaskDB.get returns for a task that has no row
NoTask == [status |-> "absent"]

\* TaskDB.create: the row INSERTed for a new task
create ==
  [status |-> "pending", progress |-> 0, total_chunks |-> 0,
   completed_chunks |-> 0, error |-> FALSE]

\* TaskDB._calculate_progress_from_chunks; int(c / t * 60) = (c * 60) \div t
calculate_progress_from_chunks(total_chunks, completed_chunks) ==
  IF total_chunks <= 0 THEN 0
  ELSE 20 + (completed_chunks * 60) \div total_chunks

\* TaskDB._calculate_progress
calculate_progress(status, current, total) ==
  IF status = "shadow_writing"
  THEN IF total > 0 /\ current > 0 THEN 20 + (current * 60) \div total ELSE 20
  ELSE CASE status = "pending" -> 0
         [] status = "parsing" -> 10
         [] status = "semantic_chunk" -> 20
         [] status = "quality_check" -> 80
         [] status = "completed" -> 100
         [] status = "failed" -> 100
         [] OTHER -> 0

\* TaskDB.update_progress: UPDATE ... WHERE id = ? changes nothing without a row
update_progress(t, status, current, total) ==
  IF t = NoTask THEN t
  ELSE [t EXCEPT !.status = status,
                 !.progress = calculate_progress(status, current, total)]

\* TaskDB.update_chunks_info
update_chunks_info(t, total_chunks, completed_chunks) ==
  IF t = NoTask THEN t
  ELSE [t EXCEPT !.total_chunks = total_chunks,
                 !.completed_chunks = completed_chunks,
                 !.status = "shadow_writing",
                 !.progress = calculate_progress_from_chunks(total_chunks,
                                                             completed_chunks)]

\* a faulty update: INSERT OR REPLACE, which puts back the row of a deleted task
UpsertStatusProgress(t, status, progress) ==
  IF t = NoTask THEN [create EXCEPT !.status = status, !.progress = progress]
  ELSE [t EXCEPT !.status = status, !.progress = progress]

\* TaskDB.update with {"status", "progress"}
update_status_progress(t, status, progress) ==
  IF t = NoTask THEN t ELSE [t EXCEPT !.status = status, !.progress = progress]

\* TaskDB.update with {"status", "error"}: the progress column is not written
update_status_error(t, status) ==
  IF t = NoTask THEN t ELSE [t EXCEPT !.status = status, !.error = TRUE]

\* increment_completed_chunk, first step: task = self.get(task_id) and the
\* values computed from it (current, total, progress)
IncrementRead(t) ==
  LET current == t.completed_chunks + 1
      total == t.total_chunks
  IN [current |-> current, total |-> total,
      progress |-> calculate_progress_from_chunks(total, current)]

\* a faulty UPDATE: it writes the value computed from the first read instead
\* of incrementing the column in SQL
SqlIncrementFromRead(t, current, progress) ==
  IF t = NoTask THEN t
  ELSE [t EXCEPT !.completed_chunks = current, !.progress = progress]

\* increment_completed_chunk, second step: the UPDATE statement with its
\* parameters; current only goes into the current_step text
SqlIncrement(t, current, progress) ==
  IF t = NoTask THEN t
  ELSE [t EXCEPT !.completed_chunks = @ + 1, !.progress = progress]

\* increment_completed_chunk, third step: the value returned after the re-read
IncrementReturn(t, current) ==
  IF t = NoTask THEN current ELSE t.completed_chunks

(* --------------------------- the chunk pipeline ----------------------- *)

\* what a stage holds when it has no value (Python None)
None == [none |-> TRUE]

\* a Python value is truthy: None, the empty string and the empty dict are not
SentenceTruthy(s) == s.chars > 0
MapTruthy(m) == IF m.dict THEN Len(m.entries) > 0 ELSE TRUE

\* a faulty validator: the word count is compared with 7 instead of 8
ValidSentenceSevenWords(s) == s.chars >= 12 /\ s.words >= 7

\* Ted_Shadows: Field(min_length=12) and the validators validate_original /
\* validate_imitation (at least 8 words)
ValidSentence(s) == s.chars >= 12 /\ s.words >= 8

\* Ted_Shadows.validate_map: a dict of at least 2 entries, each a non-empty list
ValidMap(m) ==
  /\ m.dict
  /\ Len(m.entries) >= 2
  /\ \A i \in 1..Len(m.entries) : m.entries[i] >= 1

\* Ted_Shadows(...) raises or builds the model object
TedShadowsAccepts(raw) ==
  /\ ValidSentence(raw.original)
  /\ ValidSentence(raw.imitation)
  /\ ValidMap(raw.map)
  /\ raw.paragraph.chars >= 10

\* shadow_writing_single_chunk: the raw_shadow it returns for an LLM result
StandardizedResult(result, chunk_text) ==
  IF chunk_text.chars = 0 \/ result = None THEN None
  ELSE [original |-> result.original, imitation |-> result.imitation,
        map |-> result.map, paragraph |-> chunk_text]

\* validation_single_chunk: the validated_shadow it returns
validation_single_chunk(raw_shadow) ==
  IF raw_shadow = None THEN None
  ELSE IF /\ SentenceTruthy(raw_shadow.original)
          /\ SentenceTruthy(raw_shadow.imitation)
          /\ MapTruthy(raw_shadow.map)
       THEN IF TedShadowsAccepts(raw_shadow)
            THEN [original |-> raw_shadow.original,
                  imitation |-> raw_shadow.imitation,
                  map |-> raw_shadow.map,
                  paragraph |-> raw_shadow.paragraph,
                  quality_score |-> 6]
            ELSE None
       ELSE None

\* a faulty quality stage: the logic veto is left out
QualityPassedNoVeto(validated, verdict) ==
  IF validated = None \/ verdict = None THEN FALSE
  ELSE verdict.total_score >= 9 /\ verdict.pass

\* quality_single_chunk: the quality_passed it returns for an LLM verdict
QualityPassed(validated, verdict) ==
  IF validated = None \/ verdict = None THEN FALSE
  ELSE LET is_valid == verdict.total_score >= 9 /\ verdict.pass
       IN IF verdict.step3_logic < 2 THEN FALSE ELSE is_valid

\* create_chunk_pipeline.should_correct
should_correct(quality_passed) ==
  IF ~quality_passed THEN "correction" ELSE "finalize_chunk"

\* correction_single_chunk: the corrected_shadow it returns
correction_single_chunk(validated) ==
  IF validated = None THEN None ELSE validated

\* finalize_single_chunk: corrected_shadow or validated_shadow
FinalResult(corrected, validated) ==
  IF corrected # None THEN corrected ELSE validated

\* a faulty aggregate: a field without reducer, each update overwrites it
MergeOverwrites(old, update) == update

\* final_shadow_chunks: Annotated[List[Ted_Shadows], operator.add]
MergeFinalShadowChunks(old, update) == old \o update

\* the id of the modelled task
TaskId == "t1"

\* workflows.get_current_task_info(): (task_id, total_chunks) of the running task
get_current_task_info == <<TaskId, wf.total_chunks>>

\* the Send payload of continue_to_pipelines for one chunk
SendPayload(chunk_text) ==
  [pc |-> "sent", chunk_text |-> chunk_text,
   raw_shadow |-> None, validated_shadow |-> None, quality_passed |-> FALSE,
   corrected_shadow |-> None, final_shadow_chunks |-> <<>>,
   inc |-> "none", inc_current |-> 0, inc_progress |-> 0, completed_chunks |-> 0,
   verdict |-> None, ran_correction |-> FALSE]

\* a chunk_id for which no pipeline was spawned
NoPipeline == [pc |-> "absent"]

\* the start of an increment_completed_chunk call by the pipeline of chunk c,
\* made in the pipeline state p: the first read, and nothing else when the task
\* has no row (return 0); after is the position the caller goes on from
IncrementStart(p, c, after) ==
  IF task = NoTask
  THEN [p EXCEPT ![c].pc = after, ![c].completed_chunks = 0]
  ELSE LET r == IncrementRead(task)
       IN [p EXCEPT ![c].inc = "update",
                    ![c].inc_current = r.current,
                    ![c].inc_progress = r.progress]

\* where the caller of increment_completed_chunk goes on
AfterIncrement(pc) == IF pc = "shadow_writing" THEN "validation" ELSE "emit"

\* increment_completed_chunk: the UPDATE statement and its commit
IncrementUpdate(c) ==
  /\ pipe[c].pc \in {"shadow_writing", "finalize_chunk"}
  /\ pipe[c].inc = "update"
  /\ task' = SqlIncrement(task, pipe[c].inc_current, pipe[c].inc_progress)
  /\ pipe' = [pipe EXCEPT ![c].inc = "reread"]
  /\ UNCHANGED <<wf, custom, final_shadow_chunks>>
  /\ UNCHANGED sseVars
  /\ UNCHANGED keyVars
  /\ UNCHANGED auxVars

\* increment_completed_chunk: the re-read and the return, after which its
\* locals are gone; shadow_writing_single_chunk drops the returned value
IncrementReread(c) ==
  /\ pipe[c].pc \in {"shadow_writing", "finalize_chunk"}
  /\ pipe[c].inc = "reread"
  /\ pipe' = [pipe EXCEPT
                ![c].inc = "none",
                ![c].inc_current = 0,
                ![c].inc_progress = 0,
                ![c].completed_chunks =
                   IF pipe[c].pc = "shadow_writing" THEN 0
                   ELSE IncrementReturn(task, pipe[c].inc_current),
                ![c].pc = AfterIncrement(pipe[c].pc)]
  /\ UNCHANGED <<task, wf, custom, final_shadow_chunks>>
  /\ UNCHANGED sseVars
  /\ UNCHANGED keyVars
  /\ UNCHANGED auxVars

\* shadow_writing_single_chunk: the LLM call (result None stands for an empty
\* or non-dict result and for an exception), the standardized result and the
\* first step of the increment made for a dict result
PipeShadowWriting(c, Results) ==
  /\ pipe[c].pc = "shadow_writing" /\ pipe[c].inc = "none"
  /\ \E result \in Results :
       LET raw == StandardizedResult(result, pipe[c].chunk_text)
       IN IF raw # None /\ wf.total_chunks > 0
          THEN pipe' = IncrementStart([pipe EXCEPT ![c].raw_shadow = raw], c,
                                      "validation")
          ELSE pipe' = [pipe EXCEPT ![c].pc = "validation"]
  /\ UNCHANGED <<task, wf, custom, final_shadow_chunks>>
  /\ UNCHANGED sseVars
  /\ UNCHANGED keyVars
  /\ UNCHANGED auxVars

\* the validation node
PipeValidation(c) ==
  /\ pipe[c].pc = "validation"
  /\ pipe' = [pipe EXCEPT
                ![c].validated_shadow = validation_single_chunk(pipe[c].raw_shadow),
                ![c].pc = "quality"]
  /\ UNCHANGED <<task, wf, custom, final_shadow_chunks>>
  /\ UNCHANGED sseVars
  /\ UNCHANGED keyVars
  /\ UNCHANGED auxVars

\* the quality node and the conditional edge after it; the LLM is called only
\* for a validated chunk (verdict None: an empty or non-dict result, an exception)
PipeQuality(c, Verdicts) ==
  /\ pipe[c].pc = "quality"
  /\ \E verdict \in (IF pipe[c].validated_shadow = None THEN {None} ELSE Verdicts) :
       LET passed == QualityPassed(pipe[c].validated_shadow, verdict)
       IN pipe' = [pipe EXCEPT ![c].quality_passed = passed,
                               ![c].verdict = verdict,
                               ![c].pc = should_correct(passed)]
  /\ UNCHANGED <<task, wf, custom, final_shadow_chunks>>
  /\ UNCHANGED sseVars
  /\ UNCHANGED keyVars
  /\ UNCHANGED auxVars

\* a faulty pipeline: the correction node leads back to the quality node
PipeCorrectionLoops(c) ==
  /\ pipe[c].pc = "correction"
  /\ pipe' = [pipe EXCEPT
                ![c].corrected_shadow = correction_single_chunk(pipe[c].validated_shadow),
                ![c].ran_correction = TRUE,
                ![c].pc = "quality"]
  /\ UNCHANGED <<task, wf, custom, final_shadow_chunks>>
  /\ UNCHANGED sseVars
  /\ UNCHANGED keyVars
  /\ UNCHANGED auxVars

\* the correction node
PipeCorrection(c) ==
  /\ pipe[c].pc = "correction"
  /\ pipe' = [pipe EXCEPT
                ![c].corrected_shadow = correction_single_chunk(pipe[c].validated_shadow),
                ![c].ran_correction = TRUE,
                ![c].pc = "finalize_chunk"]
  /\ UNCHANGED <<task, wf, custom, final_shadow_chunks>>
  /\ UNCHANGED sseVars
  /\ UNCHANGED keyVars
  /\ UNCHANGED auxVars

\* a faulty finalize: without a final result it raises, and the exception
\* ends the stream of the whole task
PipeFinalizeRaises(c) ==
  /\ pipe[c].pc = "finalize_chunk" /\ pipe[c].inc = "none"
  /\ LET final_result == FinalResult(pipe[c].corrected_shadow, pipe[c].validated_shadow)
     IN IF final_result # None
        THEN /\ pipe' = IF get_current_task_info[1] # ""
                        THEN IncrementStart(pipe, c, "emit")
                        ELSE [pipe EXCEPT ![c].pc = "emit"]
             /\ UNCHANGED <<wf, final_shadow_chunks>>
        ELSE /\ pipe' = [pipe EXCEPT ![c].pc = "end"]
             /\ wf' = [wf EXCEPT !.pc = "except"]
             /\ UNCHANGED final_shadow_chunks
  /\ UNCHANGED <<task, custom>>
  /\ UNCHANGED sseVars
  /\ UNCHANGED keyVars
  /\ UNCHANGED auxVars

\* finalize_single_chunk up to the first step of its increment; without a
\* final result it returns {"final_shadow_chunks": []} and the pipeline ends
PipeFinalize(c) ==
  /\ pipe[c].pc = "finalize_chunk" /\ pipe[c].inc = "none"
  /\ LET final_result == FinalResult(pipe[c].corrected_shadow, pipe[c].validated_shadow)
     IN IF final_result # None
        THEN /\ pipe' = IF get_current_task_info[1] # ""
                        THEN IncrementStart(pipe, c, "emit")
                        ELSE [pipe EXCEPT ![c].pc = "emit"]
             /\ UNCHANGED final_shadow_chunks
        ELSE /\ pipe' = [pipe EXCEPT
                           ![c].final_shadow_chunks = MergeFinalShadowChunks(@, <<>>),
                           ![c].pc = "end"]
             /\ final_shadow_chunks' =
                  MergeFinalShadowChunks(final_shadow_chunks, pipe'[c].final_shadow_chunks)
  /\ UNCHANGED <<task, wf, custom>>
  /\ UNCHANGED sseVars
  /\ UNCHANGED keyVars
  /\ UNCHANGED auxVars

\* the chunk_completed data finalize_single_chunk hands to the stream writer
ChunkCompletedData(c, final_result) ==
  [type |-> "chunk_completed", chunk_id |-> c, result |-> final_result,
   total_chunks |-> get_current_task_info[2],
   completed_chunks |-> pipe[c].completed_chunks]

\* a faulty finalize: the artifact is returned but writer(chunk_data) is not called
PipeEmitNoWriter(c) ==
  /\ pipe[c].pc = "emit"
  /\ LET final_result == FinalResult(pipe[c].corrected_shadow, pipe[c].validated_shadow)
     IN /\ pipe' = [pipe EXCEPT
                      ![c].final_shadow_chunks =
                         MergeFinalShadowChunks(@, <<final_result>>),
                      ![c].completed_chunks = 0,
                      ![c].pc = "end"]
        /\ final_shadow_chunks' =
             MergeFinalShadowChunks(final_shadow_chunks, pipe'[c].final_shadow_chunks)
  /\ UNCHANGED <<task, wf, custom>>
  /\ UNCHANGED sseVars
  /\ UNCHANGED keyVars
  /\ UNCHANGED auxVars

\* finalize_single_chunk: writer(chunk_data), the return of
\* {"final_shadow_chunks": [final_result]} and the merge into the parent state
PipeEmit(c) ==
  /\ pipe[c].pc = "emit"
  /\ LET final_result == FinalResult(pipe[c].corrected_shadow, pipe[c].validated_shadow)
     IN /\ custom' = Append(custom, ChunkCompletedData(c, final_result))
        /\ pipe' = [pipe EXCEPT
                      ![c].final_shadow_chunks =
                         MergeFinalShadowChunks(@, <<final_result>>),
                      ![c].completed_chunks = 0,
                      ![c].pc = "end"]
        /\ final_shadow_chunks' =
             MergeFinalShadowChunks(final_shadow_chunks, pipe'[c].final_shadow_chunks)
  /\ UNCHANGED <<task, wf>>
  /\ UNCHANGED sseVars
  /\ UNCHANGED keyVars
  /\ UNCHANGED auxVars

(* ------------------- _run_processing_workflow and the fan-out --------- *)

ChunkIds == 0..(MaxChunks - 1)

\* create_task: task_db.create(task_id, total=1) and the background task
WfCreate ==
  /\ wf.pc = "new"
  /\ task' = create
  /\ wf' = [wf EXCEPT !.pc = "created"]
  /\ UNCHANGED <<pipe, custom, final_shadow_chunks>>
  /\ UNCHANGED sseVars
  /\ UNCHANGED keyVars
  /\ UNCHANGED auxVars

\* task_db.update_progress(task_id, PARSING, 0, 1, ...)
WfParsing ==
  /\ wf.pc = "created"
  /\ task' = update_progress(task, "parsing", 0, 1)
  /\ wf' = [wf EXCEPT !.pc = "parsing"]
  /\ UNCHANGED <<pipe, custom, final_shadow_chunks>>
  /\ UNCHANGED sseVars
  /\ UNCHANGED keyVars
  /\ UNCHANGED auxVars

\* add_message(task_id, {"type": "processing_started", ...})
WfStartedMsg ==
  /\ wf.pc = "parsing"
  /\ AddMessage("processing_started", NoChunk)
  /\ wf' = [wf EXCEPT !.pc = "chunking"]
  /\ UNCHANGED <<now, stream, task, pipe, custom, final_shadow_chunks>>
  /\ UNCHANGED keyVars
  /\ UNCHANGED auxVars

\* the semantic_chunks_completed custom event the orchestrator emits after the
\* chunker (spec 4.6); agent.py and routers/core.py only hold its consumers
SemanticChunksCompletedData(n) ==
  [type |-> "semantic_chunks_completed", total_chunks |-> n]

\* the semantic_chunking node and continue_to_pipelines: n chunks, one Send per
\* chunk, and the scheduled (asyncio.create_task) chunks_processing_started
WfChunking(Ns, Lens, Emits) ==
  /\ wf.pc = "chunking"
  /\ \E n \in Ns, emit \in Emits :
       \E lens \in [0..(n - 1) -> Lens] :
         /\ pipe' = [c \in ChunkIds |->
                       IF c < n THEN SendPayload([id |-> c, chars |-> lens[c]])
                       ELSE NoPipeline]
         /\ custom' = IF emit THEN <<SemanticChunksCompletedData(n)>> ELSE <<>>
         /\ wf' = [wf EXCEPT !.pc = "chunked", !.total_chunks = n,
                             !.started_pending = TRUE]
  /\ UNCHANGED <<task, final_shadow_chunks>>
  /\ UNCHANGED sseVars
  /\ UNCHANGED keyVars
  /\ UNCHANGED auxVars

\* the loop over process_ted_text_stream takes semantic_chunks_completed:
\* task_db.update_chunks_info(task_id, total_chunks, completed_chunks=0); the
\* stream generator hands the event over before it starts the next superstep
WfConsumeSemantic ==
  /\ wf.pc = "chunked"
  /\ custom # <<>> /\ Head(custom).type = "semantic_chunks_completed"
  /\ task' = update_chunks_info(task, Head(custom).total_chunks, 0)
  /\ custom' = Tail(custom)
  /\ UNCHANGED <<wf, pipe, final_shadow_chunks>>
  /\ UNCHANGED sseVars
  /\ UNCHANGED keyVars
  /\ UNCHANGED auxVars

\* the superstep of the Sends starts: every chunk pipeline runs
WfFanOut ==
  /\ wf.pc = "chunked"
  /\ custom = <<>>
  /\ pipe' = [c \in ChunkIds |->
                IF pipe[c].pc = "sent" THEN [pipe[c] EXCEPT !.pc = "shadow_writing"]
                ELSE pipe[c]]
  /\ wf' = [wf EXCEPT !.pc = "streaming"]
  /\ UNCHANGED <<task, custom, final_shadow_chunks>>
  /\ UNCHANGED sseVars
  /\ UNCHANGED keyVars
  /\ UNCHANGED auxVars

\* the task created in continue_to_pipelines runs once the stream generator
\* awaits the pipelines: chunks_processing_started
WfChunksStartedMsg ==
  /\ wf.pc = "streaming"
  /\ wf.started_pending
  /\ AddMessage("chunks_processing_started", NoChunk)
  /\ wf' = [wf EXCEPT !.started_pending = FALSE]
  /\ UNCHANGED <<now, stream, task, pipe, custom, final_shadow_chunks>>
  /\ UNCHANGED keyVars
  /\ UNCHANGED auxVars

\* process_ted_text_stream takes chunk_completed: it forwards it to the bus and
\* yields it; _run_processing_workflow appends the result
WfConsumeChunk ==
  /\ wf.pc = "streaming" /\ ~wf.started_pending
  /\ custom # <<>> /\ Head(custom).type = "chunk_completed"
  /\ AddMessage("chunk_completed", Head(custom).chunk_id)
  /\ wf' = [wf EXCEPT !.results = Append(@, Head(custom).result)]
  /\ custom' = Tail(custom)
  /\ UNCHANGED <<now, stream, task, pipe, final_shadow_chunks>>
  /\ UNCHANGED keyVars
  /\ UNCHANGED auxVars

\* astream ends when every pipeline has ended and every event was taken:
\* add_message(task_id, {"type": "chunking_completed", ...})
WfChunkingCompletedMsg ==
  /\ wf.pc = "streaming" /\ ~wf.started_pending
  /\ custom = <<>>
  /\ \A c \in ChunkIds : pipe[c].pc \in {"absent", "end"}
  /\ AddMessage("chunking_completed", NoChunk)
  /\ wf' = [wf EXCEPT !.pc = "joined"]
  /\ UNCHANGED <<now, stream, task, pipe, custom, final_shadow_chunks>>
  /\ UNCHANGED keyVars
  /\ UNCHANGED auxVars

\* task_db.update(task_id, {"status": QUALITY_CHECK, "progress": 80})
WfQualityCheck ==
  /\ wf.pc = "joined"
  /\ task' = update_status_progress(task, "quality_check", 80)
  /\ wf' = [wf EXCEPT !.pc = "sleep"]
  /\ UNCHANGED <<pipe, custom, final_shadow_chunks>>
  /\ UNCHANGED sseVars
  /\ UNCHANGED keyVars
  /\ UNCHANGED auxVars

\* task_db.update(task_id, {"status": COMPLETED, "progress": 100, ...})
WfCompleted ==
  /\ wf.pc = "sleep"
  /\ task' = update_status_progress(task, "completed", 100)
  /\ wf' = [wf EXCEPT !.pc = "completed"]
  /\ UNCHANGED <<pipe, custom, final_shadow_chunks>>
  /\ UNCHANGED sseVars
  /\ UNCHANGED keyVars
  /\ UNCHANGED auxVars

\* add_message(task_id, {"type": "processing_completed", ...})
WfCompletedMsg ==
  /\ wf.pc = "completed"
  /\ AddMessage("processing_completed", NoChunk)
  /\ wf' = [wf EXCEPT !.pc = "history"]
  /\ UNCHANGED <<now, stream, task, pipe, custom, final_shadow_chunks>>
  /\ UNCHANGED keyVars
  /\ UNCHANGED auxVars

\* history_db.create(...) returns
WfHistoryCreated ==
  /\ wf.pc = "history"
  /\ wf' = [wf EXCEPT !.pc = "done"]
  /\ UNCHANGED <<task, pipe, custom, final_shadow_chunks>>
  /\ UNCHANGED sseVars
  /\ UNCHANGED keyVars
  /\ UNCHANGED auxVars

\* history_db.create(...) raises (the INSERT fails)
WfHistoryRaises ==
  /\ wf.pc = "history"
  /\ wf' = [wf EXCEPT !.pc = "except"]
  /\ UNCHANGED <<task, pipe, custom, final_shadow_chunks>>
  /\ UNCHANGED sseVars
  /\ UNCHANGED keyVars
  /\ UNCHANGED auxVars

\* process_ted_text_stream raises before the fan-out (the chunking node fails):
\* its except clause re-raises into the except clause of the workflow
WfStreamRaises ==
  /\ wf.pc = "chunking"
  /\ wf' = [wf EXCEPT !.pc = "except"]
  /\ UNCHANGED <<task, pipe, custom, final_shadow_chunks>>
  /\ UNCHANGED sseVars
  /\ UNCHANGED keyVars
  /\ UNCHANGED auxVars

\* except: task_db.update(task_id, {"status": FAILED, "error": ...})
WfFailed ==
  /\ wf.pc = "except"
  /\ task' = update_status_error(task, "failed")
  /\ wf' = [wf EXCEPT !.pc = "failed"]
  /\ UNCHANGED <<pipe, custom, final_shadow_chunks>>
  /\ UNCHANGED sseVars
  /\ UNCHANGED keyVars
  /\ UNCHANGED auxVars

\* except: add_message(task_id, {"type": "error", ...})
WfErrorMsg ==
  /\ wf.pc = "failed"
  /\ AddMessage("error", NoChunk)
  /\ wf' = [wf EXCEPT !.pc = "done"]
  /\ UNCHANGED <<now, stream, task, pipe, custom, final_shadow_chunks>>
  /\ UNCHANGED keyVars
  /\ UNCHANGED auxVars

\* DELETE /tasks/{task_id}: 404 for a task without row, else task_db.delete
DeleteTask ==
  /\ task # NoTask
  /\ task' = NoTask
  /\ UNCHANGED <<wf, pipe, custom, final_shadow_chunks>>
  /\ UNCHANGED sseVars
  /\ UNCHANGED keyVars
  /\ UNCHANGED auxVars

(* ------------------- APIKeyManager, the monitor and call_fn ------------ *)

\* one second of time.time(), in the unit of clock
Second == 100

Min(a, b) == IF a <= b THEN a ELSE b
Max(a, b) == IF a >= b THEN a ELSE b

\* APIKeyStatus(key_id, key): failure_count = 0, cooldown_until = 0.0, total_calls = 0
APIKeyStatus == [failure_count |-> 0, cooldown_until |-> 0, total_calls |-> 0]

\* APIKeyStats(key_id, key_suffix), the fields of the invalidation policy
APIKeyStats ==
  [consecutive_failures |-> 0, failure_rate_window |-> <<>>, is_valid |-> TRUE,
   rate_limit_hits |-> 0]

\* deque.rotate(-1)
Rotate(q) == IF q = <<>> THEN q ELSE Append(Tail(q), Head(q))

\* mark_failure: how it classifies the error message
IsRateLimit(error) == error = "rate_limit"
IsConnectionError(error) == error = "connection"

\* mark_failure: base_backoff and max_backoff, in seconds
base_backoff(failure_count, error) ==
  IF IsConnectionError(error) /\ ~IsRateLimit(error)
  THEN Min(5, 2 ^ (failure_count - 1))
  ELSE 2 ^ (failure_count - 1)

max_backoff(error) ==
  IF IsConnectionError(error) /\ ~IsRateLimit(error) THEN 30 ELSE 60

\* mark_failure: cooldown_seconds = max(1, c + c * 0.25 * (random.random() * 2 - 1))
\* with c = min(base_backoff, max_backoff); jitter is random.random() * 2 - 1 in
\* hundredths (-100 .. 99); the result is in the unit of clock
cooldown_seconds(failure_count, error, jitter) ==
  LET c == Min(base_backoff(failure_count, error), max_backoff(error))
  IN Max(1 * Second, c * Second + (c * 25 * jitter) \div 100)

\* APIKeyManager.rotate_key on the manager record m
rotate_key(m) ==
  [m EXCEPT !.keys = Rotate(@), !.total_switches = @ + 1]

\* a faulty mark_failure: it rotates the keys after every error
MarkFailureAlwaysRotates(m, key, error, jitter, t) ==
  LET failure_count == m.status[key].failure_count + 1
      counted == [m EXCEPT !.status[key].failure_count = failure_count]
  IN IF IsRateLimit(error) \/ IsConnectionError(error)
     THEN rotate_key([counted EXCEPT
                        !.status[key].cooldown_until =
                           t + cooldown_seconds(failure_count, error, jitter)])
     ELSE rotate_key(counted)

\* APIKeyManager.mark_failure(key, error_message) on the manager record m at
\* time t; an error that is neither a rate limit nor a connection error only
\* counts
mark_failure(m, key, error, jitter, t) ==
  LET failure_count == m.status[key].failure_count + 1
      counted == [m EXCEPT !.status[key].failure_count = failure_count]
  IN IF IsRateLimit(error) \/ IsConnectionError(error)
     THEN rotate_key([counted EXCEPT
                        !.status[key].cooldown_until =
                           t + cooldown_seconds(failure_count, error, jitter)])
     ELSE counted

\* the size failure_rate_window is trimmed to, scaled down
failure_rate_window_size == 12

\* the number of consecutive failures that marks a key invalid
invalid_after_failures == 10

\* APIKeyStats.recent_failure_rate, in percent, as a comparison with 80
RecentFailureRateAbove80(window) ==
  window # <<>> /\
  Cardinality({i \in 1..Len(window) : ~window[i]}) * 100 > 80 * Len(window)

\* APIKeyMonitor.record_call(key_id, success, ...): the invalidation policy
record_call(stat, success, rate_limited) ==
  LET appended == Append(stat.failure_rate_window, success)
      window == IF Len(appended) > failure_rate_window_size
                THEN Tail(appended) ELSE appended
      consecutive == IF success THEN 0 ELSE stat.consecutive_failures + 1
      invalid == \/ (~success /\ consecutive >= invalid_after_failures)
                 \/ (Len(window) >= failure_rate_window_size
                     /\ RecentFailureRateAbove80(window))
  IN [consecutive_failures |-> consecutive,
      failure_rate_window |-> window,
      is_valid |-> IF invalid THEN FALSE ELSE stat.is_valid,
      rate_limit_hits |-> stat.rate_limit_hits + (IF rate_limited THEN 1 ELSE 0)]

\* the keys of the manager
Keys == {manager.keys[i] : i \in 1..Len(manager.keys)}

\* the earliest cooldown_until among all keys
EarliestCooldown ==
  CHOOSE t \in {manager.status[k].cooldown_until : k \in Keys} :
    \A k \in Keys : t <= manager.status[k].cooldown_until

\* a caller that runs no call
IdleCaller ==
  [pc |-> "idle", started |-> 0, current_time |-> 0, i |-> 0, key |-> "",
   wake |-> 0, entry_all_cooling |-> FALSE, entry_earliest |-> 0,
   entry_earliest_keys |-> {}, ret_time |-> 0, ret_cooling |-> FALSE,
   ret_invalid |-> FALSE, last_error |-> "", fallback_error |-> ""]

\* no call was made on a key
NoKeyHistory == [streak |-> 0, cooldown_set |-> 0, served |-> 0]

\* APIKeyManager(keys) with its keys registered to the monitor, and callers
KeyInit(keys, callers) ==
  /\ clock = 0
  /\ manager = [keys |-> keys,
                status |-> [k \in {keys[i] : i \in 1..Len(keys)} |-> APIKeyStatus],
                total_switches |-> 0]
  /\ monitor = [k \in {keys[i] : i \in 1..Len(keys)} |-> APIKeyStats]
  /\ caller = [c \in callers |-> IdleCaller]
  /\ key_history = [k \in {keys[i] : i \in 1..Len(keys)} |-> NoKeyHistory]

\* the instants at which something is due: a cooldown ends, a sleeper wakes
DueTimes ==
  {manager.status[k].cooldown_until : k \in Keys}
  \cup {caller[c].wake : c \in {d \in DOMAIN caller : caller[d].pc = "sleep"}}

\* time passes up to the next instant at which something is due; the steps of
\* get_key and mark_failure take no time, a sleep and an HTTP round trip do
ClockAdvance ==
  /\ \A c \in DOMAIN caller : caller[c].pc \in {"idle", "sleep", "completion"}
  /\ \E t \in DueTimes :
       /\ t > clock
       /\ \A u \in DueTimes : u > clock => t <= u
       /\ clock' = t
  /\ UNCHANGED <<manager, monitor, caller, key_history>>
  /\ UNCHANGED sseVars
  /\ UNCHANGED taskVars
  /\ UNCHANGED auxVars

\* the sum of status.total_calls over the keys ks
RECURSIVE SumTotalCalls(_)
SumTotalCalls(ks) ==
  IF ks = {} THEN 0
  ELSE LET k == CHOOSE x \in ks : TRUE
       IN manager.status[k].total_calls + SumTotalCalls(ks \ {k})

\* call_fn(messages) is called: the retry loop begins
CallStart(c, calls) ==
  /\ caller[c].pc = "idle"
  /\ SumTotalCalls(Keys) < calls
  /\ caller' = [caller EXCEPT ![c].pc = "get_key", ![c].started = clock]
  /\ UNCHANGED <<clock, manager, monitor, key_history>>
  /\ UNCHANGED sseVars
  /\ UNCHANGED taskVars
  /\ UNCHANGED auxVars

\* get_key: current_time = time.time(), before the loop over the keys
GetKeyStart(c) ==
  /\ caller[c].pc = "get_key"
  /\ caller' = [caller EXCEPT
                  ![c].pc = "scan",
                  ![c].current_time = clock,
                  ![c].i = 0,
                  ![c].entry_all_cooling =
                     \A k \in Keys : manager.status[k].cooldown_until > clock,
                  ![c].entry_earliest = EarliestCooldown,
                  ![c].entry_earliest_keys =
                     {k \in Keys : manager.status[k].cooldown_until = EarliestCooldown}]
  /\ UNCHANGED <<clock, manager, monitor, key_history>>
  /\ UNCHANGED sseVars
  /\ UNCHANGED taskVars
  /\ UNCHANGED auxVars

\* get_key: one turn of the loop: the head key is taken if it is not cooling,
\* else the deque is rotated
GetKeyScan(c) ==
  /\ caller[c].pc = "scan"
  /\ caller[c].i < Len(manager.keys)
  /\ LET key == manager.keys[1]
     IN IF caller[c].current_time >= manager.status[key].cooldown_until
        THEN /\ caller' = [caller EXCEPT ![c].pc = "found", ![c].key = key]
             /\ UNCHANGED manager
        ELSE /\ manager' = [manager EXCEPT !.keys = Rotate(@)]
             /\ caller' = [caller EXCEPT ![c].i = @ + 1]
  /\ UNCHANGED <<clock, monitor, key_history>>
  /\ UNCHANGED sseVars
  /\ UNCHANGED taskVars
  /\ UNCHANGED auxVars

\* what the caller holds when get_key returns key
GetKeyReturn(c, key) ==
  [caller EXCEPT
     ![c].pc = "completion",
     ![c].key = key,
     ![c].ret_time = clock,
     ![c].ret_cooling = manager.status[key].cooldown_until > clock,
     ![c].ret_invalid = ~monitor[key].is_valid,
     ![c].fallback_error = ""]

\* get_key: status.total_calls += 1; return key
GetKeyFound(c) ==
  /\ caller[c].pc = "found"
  /\ manager' = [manager EXCEPT !.status[caller[c].key].total_calls = @ + 1]
  /\ caller' = GetKeyReturn(c, caller[c].key)
  /\ UNCHANGED <<clock, monitor, key_history>>
  /\ UNCHANGED sseVars
  /\ UNCHANGED taskVars
  /\ UNCHANGED auxVars

\* get_key after the loop: every key was cooling; time.sleep(wait_time) for
\* the head key if it is still cooling, else return self._keys[0]
GetKeyAllCooling(c) ==
  /\ caller[c].pc = "scan"
  /\ caller[c].i >= Len(manager.keys)
  /\ LET head == manager.keys[1]
         until == manager.status[head].cooldown_until
     IN IF until > caller[c].current_time
        THEN caller' = [caller EXCEPT
                          ![c].pc = "sleep",
                          ![c].wake = clock + (until - caller[c].current_time)]
        ELSE caller' = GetKeyReturn(c, head)
  /\ UNCHANGED <<clock, manager, monitor, key_history>>
  /\ UNCHANGED sseVars
  /\ UNCHANGED taskVars
  /\ UNCHANGED auxVars

\* get_key: the sleep is over; return self._keys[0]
GetKeyWake(c) ==
  /\ caller[c].pc = "sleep"
  /\ clock >= caller[c].wake
  /\ caller' = GetKeyReturn(c, manager.keys[1])
  /\ UNCHANGED <<clock, manager, monitor, key_history>>
  /\ UNCHANGED sseVars
  /\ UNCHANGED taskVars
  /\ UNCHANGED auxVars

\* the errors of completion() that _is_retryable_error accepts, by what
\* mark_failure finds in their message
RetryableErrors == {"rate_limit", "connection", "other"}

\* an error _is_retryable_error rejects: bad request, authentication, the
\* ValueError of an empty response
NonRetryable == "non_retryable"

\* call_fn: completion(**params) returns and the result is parsed: return result
CompletionReturns(c) ==
  /\ caller[c].pc = "completion"
  /\ caller' = [caller EXCEPT ![c].pc = "returned"]
  /\ key_history' = [key_history EXCEPT
                       ![caller[c].key] = [streak |-> 0, cooldown_set |-> 0,
                                           served |-> @.served + 1]]
  /\ UNCHANGED <<clock, manager, monitor>>
  /\ UNCHANGED sseVars
  /\ UNCHANGED taskVars
  /\ UNCHANGED auxVars

\* call_fn: a retryable error: ProviderKeyManager.mark_failure(provider,
\* current_key, str(e)); continue
CompletionRetryable(c, Errors, Jits, failures) ==
  /\ caller[c].pc = "completion"
  /\ manager.status[caller[c].key].failure_count < failures
  /\ \E error \in Errors :
       \E jitter \in (IF error = "other" THEN {0} ELSE Jits) :
          LET key == caller[c].key
              failure_count == manager.status[key].failure_count + 1
          IN /\ manager' = mark_failure(manager, key, error, jitter, clock)
             /\ key_history' =
                  [key_history EXCEPT
                     ![key].streak = IF IsRateLimit(error) THEN @ + 1 ELSE 0,
                     ![key].cooldown_set =
                        IF IsRateLimit(error)
                        THEN cooldown_seconds(failure_count, error, jitter)
                        ELSE 0]
             /\ caller' = [caller EXCEPT ![c].pc = "get_key",
                                         ![c].last_error = error]
  /\ UNCHANGED <<clock, monitor>>
  /\ UNCHANGED sseVars
  /\ UNCHANGED taskVars
  /\ UNCHANGED auxVars

\* call_fn with config.response_format set: the first completion(**params)
\* raises, whatever the error; the inner except clause drops it and calls
\* completion again with response_format = {"type": "json_object"} and the
\* same key
CompletionFallback(c, Errors) ==
  /\ caller[c].pc = "completion"
  /\ caller[c].fallback_error = ""
  /\ \E error \in Errors :
       caller' = [caller EXCEPT ![c].fallback_error = error]
  /\ UNCHANGED <<clock, manager, monitor, key_history>>
  /\ UNCHANGED sseVars
  /\ UNCHANGED taskVars
  /\ UNCHANGED auxVars

\* call_fn: an error that is not retryable: raise
CompletionRaises(c) ==
  /\ caller[c].pc = "completion"
  /\ caller' = [caller EXCEPT ![c].pc = "raised",
                              ![c].last_error = NonRetryable]
  /\ UNCHANGED <<clock, manager, monitor, key_history>>
  /\ UNCHANGED sseVars
  /\ UNCHANGED taskVars
  /\ UNCHANGED auxVars

\* the caller of call_fn goes on and may call again
CallEnds(c) ==
  /\ caller[c].pc \in {"returned", "raised"}
  /\ caller' = [caller EXCEPT ![c] = IdleCaller]
  /\ UNCHANGED <<clock, manager, monitor, key_history>>
  /\ UNCHANGED sseVars
  /\ UNCHANGED taskVars
  /\ UNCHANGED auxVars

\* POST .../rotate: ProviderKeyManager.rotate_key(provider)
RotateKey(switches) ==
  /\ manager.total_switches < switches
  /\ manager' = rotate_key(manager)
  /\ UNCHANGED <<clock, monitor, caller, key_history>>
  /\ UNCHANGED sseVars
  /\ UNCHANGED taskVars
  /\ UNCHANGED auxVars

\* utils.call_llm reports the outcome of a call on a key to the monitor, a
\* failed one with rate_limited set for a rate-limit or connection error; the
\* reports on a key that is already invalid are left out (nothing sets
\* is_valid back to true)
MonitorRecordCall(Successes) ==
  /\ \E k \in Keys, success \in Successes, rate_limited \in BOOLEAN :
       /\ monitor[k].is_valid
       /\ success => ~rate_limited
       /\ rate_limited => monitor[k].rate_limit_hits < MaxHits
       /\ monitor' = [monitor EXCEPT ![k] = record_call(@, success, rate_limited)]
  /\ UNCHANGED <<clock, manager, caller, key_history>>
  /\ UNCHANGED sseVars
  /\ UNCHANGED taskVars
  /\ UNCHANGED auxVars

(* ------------------------- SSEManager: the cleanup --------------------- *)

\* cleanup_expired_messages: the queue's last activity is older than the TTL
Expired(current_time) ==
  task_timestamps # 0 /\ current_time - task_timestamps > message_ttl

\* no run of the cleanup yet
CleanupInit == cleanup = [ran |-> FALSE, at |-> 0, expired |-> FALSE]

\* one turn of cleanup_task: cleanup_expired_messages() collects the expired
\* task and calls the coroutine function clear_task_messages(task_id) without
\* awaiting it, so its body (the two del statements) does not run
CleanupExpiredMessages ==
  /\ cleanup' = [ran |-> TRUE, at |-> now, expired |-> Expired(now)]
  /\ UNCHANGED <<chunker, health>>
  /\ UNCHANGED sseVars
  /\ UNCHANGED taskVars
  /\ UNCHANGED keyVars

(* ----------------------- Semantic_Chunking_Agent ---------------------- *)

\* self.min_chunk_size and self.max_chunk_size
min_chunk_size == 150
max_chunk_size == 250

\* the characters re.split(r'[.!?]+\s+') takes out between two sentences
SeparatorLen == 2

\* a chunk that holds no sentence yet (current_chunk = "")
EmptyChunk == [chars |-> 0, sentences |-> 0]

\* current_chunk += " " + sentence if current_chunk else sentence
AddSentence(current_chunk, sentence) ==
  IF current_chunk.chars > 0
  THEN [chars |-> current_chunk.chars + 1 + sentence,
        sentences |-> current_chunk.sentences + 1]
  ELSE [chars |-> sentence, sentences |-> 1]

\* the loop of split_into_chunks over the sentences (given by their lengths
\* after strip()) and the append of the last chunk
RECURSIVE PackSentences(_, _, _)
PackSentences(sentences, chunks, current_chunk) ==
  IF sentences = <<>>
  THEN IF current_chunk.chars > 0 THEN Append(chunks, current_chunk) ELSE chunks
  ELSE LET sentence == Head(sentences)
       IN IF sentence = 0
          THEN PackSentences(Tail(sentences), chunks, current_chunk)
          ELSE IF current_chunk.chars + sentence > max_chunk_size
                  /\ current_chunk.chars > 0
               THEN IF current_chunk.chars >= min_chunk_size
                    THEN PackSentences(Tail(sentences),
                                       Append(chunks, current_chunk),
                                       [chars |-> sentence, sentences |-> 1])
                    ELSE PackSentences(Tail(sentences), chunks,
                                       AddSentence(current_chunk, sentence))
               ELSE PackSentences(Tail(sentences), chunks,
                                  AddSentence(current_chunk, sentence))

\* len(text) of a transcript given by the lengths of its sentences
RECURSIVE SumLengths(_)
SumLengths(sentences) ==
  IF sentences = <<>> THEN 0 ELSE Head(sentences) + SumLengths(Tail(sentences))

TextLength(sentences) ==
  SumLengths(sentences) + SeparatorLen * (Len(sentences) - 1)

\* Semantic_Chunking_Agent.split_into_chunks(text): the chunks, each by its
\* character length and the number of sentences it holds
split_into_chunks(sentences) ==
  IF TextLength(sentences) <= max_chunk_size
  THEN <<[chars |-> TextLength(sentences), sentences |-> Len(sentences)]>>
  ELSE PackSentences(sentences, <<>>, EmptyChunk)

\* no call of the chunker
NoChunkerCall == [pc |-> "idle", sentences |-> <<>>, chunks |-> <<>>]

\* a call of split_into_chunks on one of the transcripts
ChunkerInit(Transcripts) ==
  chunker \in {[pc |-> "called", sentences |-> t, chunks |-> <<>>] : t \in Transcripts}

\* split_into_chunks returns
SplitIntoChunks ==
  /\ chunker.pc = "called"
  /\ chunker' = [chunker EXCEPT !.pc = "returned",
                                !.chunks = split_into_chunks(chunker.sentences)]
  /\ UNCHANGED <<cleanup, health>>
  /\ UNCHANGED sseVars
  /\ UNCHANGED taskVars
  /\ UNCHANGED keyVars

(* ------------------ initialize_key_manager (health check) ------------- *)

\* what the test request of check_key_health can end with: a valid response,
\* an empty one, an error that names a permanent cause, any other error
HealthOutcomes == {"ok", "empty_response", "permanent", "other"}

\* check_key_health(key): True = healthy, False = permanently invalid
check_key_health(outcome) == outcome \in {"ok", "other"}

\* before initialize_key_manager: no key of the settings is checked
HealthInit(keys) ==
  health = [pc |-> "boot", next |-> 1,
            outcome |-> [k \in {keys[i] : i \in 1..Len(keys)} |-> "unchecked"],
            healthy_keys |-> <<>>]

\* initialize_key_manager, one turn of its loop over settings.groq_api_keys
CheckKeyHealth(keys, Outcomes) ==
  /\ health.pc = "boot"
  /\ health.next <= Len(keys)
  /\ \E outcome \in Outcomes :
       LET key == keys[health.next]
       IN health' = [health EXCEPT
                       !.outcome[key] = outcome,
                       !.healthy_keys = IF check_key_health(outcome)
                                        THEN Append(@, key) ELSE @,
                       !.next = @ + 1]
  /\ UNCHANGED <<cleanup, chunker>>
  /\ UNCHANGED sseVars
  /\ UNCHANGED taskVars
  /\ UNCHANGED keyVars

\* initialize_key_manager after the loop: ValueError without a healthy key,
\* else utils.api_key_manager = APIKeyManager(healthy_keys); the manager of
\* ProviderKeyManager is built from the settings and is not touched
InitializeKeyManager(keys) ==
  /\ health.pc = "boot"
  /\ health.next > Len(keys)
  /\ health' = [health EXCEPT
                  !.pc = IF health.healthy_keys = <<>> THEN "failed" ELSE "ready"]
  /\ UNCHANGED <<cleanup, chunker>>
  /\ UNCHANGED sseVars
  /\ UNCHANGED taskVars
  /\ UNCHANGED keyVars

\* a call of the LLM client after the start-up
CallAfterStartup(c, calls) ==
  /\ health.pc = "ready"
  /\ CallStart(c, calls)

(* ------------------------- inputs and specifications ------------------ *)

\* sentences an LLM result can hold, by their word and character counts
EmptySentence == [words |-> 0, chars |-> 0]
ShortSentence == [words |-> 7, chars |-> 38]
EightWordSentence == [words |-> 8, chars |-> 44]
LongSentence == [words |-> 12, chars |-> 70]

\* maps an LLM result can hold: a dict by the lengths of its value lists, or a
\* value that is no dict
EmptyMap == [dict |-> TRUE, entries |-> <<>>]
OneEntryMap == [dict |-> TRUE, entries |-> <<2>>]
TwoEntryMap == [dict |-> TRUE, entries |-> <<2, 2>>]
EmptyListMap == [dict |-> TRUE, entries |-> <<2, 0>>]
NotADict == [dict |-> FALSE, entries |-> <<>>]

\* every LLM result of the generate stage that is considered
AllResults ==
  {None} \cup
  [original : {ShortSentence, LongSentence},
   imitation : {EmptySentence, ShortSentence, EightWordSentence, LongSentence},
   map : {EmptyMap, OneEntryMap, TwoEntryMap, EmptyListMap, NotADict}]

GoodResult ==
  [original |-> LongSentence, imitation |-> LongSentence, map |-> TwoEntryMap]

\* the results used where several pipelines run
FewResults ==
  {None, GoodResult, [GoodResult EXCEPT !.imitation = ShortSentence]}

\* every verdict of the quality LLM that is considered
AllVerdicts ==
  {None} \cup [total_score : 0..11, step3_logic : 0..3, pass : BOOLEAN]

\* the verdicts used where several pipelines run: a pass and a logic veto
FewVerdicts ==
  {[total_score |-> 10, step3_logic |-> 3, pass |-> TRUE],
   [total_score |-> 10, step3_logic |-> 1, pass |-> TRUE]}

\* the state before POST /tasks
TaskInit ==
  /\ task = NoTask
  /\ wf = [pc |-> "new", total_chunks |-> 0, started_pending |-> FALSE,
           results |-> <<>>]
  /\ pipe = [c \in ChunkIds |-> NoPipeline]
  /\ custom = <<>>
  /\ final_shadow_chunks = <<>>

\* the keys of the modelled provider
PoolKeys == <<"k1", "k2">>

\* the state outside the bus, the task and the key manager
AuxInit == CleanupInit /\ chunker = NoChunkerCall /\ HealthInit(PoolKeys)

Init == SSEInit /\ TaskInit /\ KeyInit(PoolKeys, 1..MaxCallers) /\ AuxInit

\* the steps of _run_processing_workflow outside the fan-out
WfNext ==
  \/ WfCreate
  \/ WfParsing
  \/ WfStartedMsg
  \/ WfFanOut
  \/ WfChunksStartedMsg
  \/ WfConsumeSemantic
  \/ WfConsumeChunk
  \/ WfChunkingCompletedMsg
  \/ WfQualityCheck
  \/ WfCompleted
  \/ WfCompletedMsg
  \/ WfHistoryCreated
  \/ WfHistoryRaises
  \/ WfStreamRaises
  \/ WfFailed
  \/ WfErrorMsg

\* the steps of the pipeline of chunk c that take no input
PipeNext(c) ==
  \/ IncrementUpdate(c)
  \/ IncrementReread(c)
  \/ PipeValidation(c)
  \/ PipeCorrection(c)
  \/ PipeFinalize(c)
  \/ PipeEmit(c)

\* one task with up to MaxChunks concurrent pipelines
Next ==
  \/ WfNext
  \/ WfChunking(1..MaxChunks, {200}, BOOLEAN)
  \/ \E c \in ChunkIds :
       \/ PipeNext(c)
       \/ PipeShadowWriting(c, FewResults)
       \/ PipeQuality(c, FewVerdicts)

Spec == Init /\ [][Next]_vars

\* the event bus with its producers and one subscriber
SpecSSE == Init /\ [][SSENext]_vars

\* one task with a single chunk, over every LLM result and verdict
PipelineNext ==
  \/ WfNext
  \/ WfChunking({1}, {5, 200}, BOOLEAN)
  \/ PipeNext(0)
  \/ PipeShadowWriting(0, AllResults)
  \/ PipeQuality(0, AllVerdicts)

SpecPipeline == Init /\ [][PipelineNext]_vars

\* values of random.random() * 2 - 1, in hundredths
Jitters == {-100, 0, 96}

\* the steps of the calls of caller c that take no input
CallNext(c) ==
  \/ GetKeyStart(c)
  \/ GetKeyScan(c)
  \/ GetKeyFound(c)
  \/ GetKeyAllCooling(c)
  \/ GetKeyWake(c)
  \/ CompletionReturns(c)
  \/ CallEnds(c)

\* a pool of two keys with concurrent callers
KeysNext ==
  \/ ClockAdvance
  \/ RotateKey(MaxSwitches)
  \/ \E c \in DOMAIN caller :
       \/ CallNext(c)
       \/ CallStart(c, FewCalls)
       \/ CompletionRetryable(c, RetryableErrors, {0, 96}, MaxPoolFailures)

SpecKeys == Init /\ [][KeysNext]_vars

\* a pool of one key with one caller, over long runs of failures
BackoffInit == SSEInit /\ TaskInit /\ KeyInit(<<"k1">>, {1}) /\ AuxInit

BackoffNext ==
  \/ ClockAdvance
  \/ CallNext(1)
  \/ CallStart(1, FewCalls)
  \/ CompletionRetryable(1, {"rate_limit"}, Jitters, MaxFailures)

SpecBackoff == BackoffInit /\ [][BackoffNext]_vars

\* a pool of one key with one caller and the reports to the monitor
MonitorNext ==
  \/ MonitorRecordCall(BOOLEAN)
  \/ CallStart(1, FewCalls)
  \/ GetKeyStart(1)
  \/ GetKeyScan(1)
  \/ GetKeyFound(1)
  \/ CompletionReturns(1)
  \/ CallEnds(1)

SpecMonitor == BackoffInit /\ [][MonitorNext]_vars

\* a pool of two keys that never fail, with concurrent callers
FairNext ==
  \E c \in DOMAIN caller :
     \/ CallStart(c, MaxCalls)
     \/ GetKeyStart(c)
     \/ GetKeyScan(c)
     \/ GetKeyFound(c)
     \/ CompletionReturns(c)
     \/ CompletionRaises(c)
     \/ CallEnds(c)

SpecFair == Init /\ [][FairNext]_vars

\* one task with a single chunk and a client that deletes the task
DeleteNext ==
  \/ WfNext
  \/ WfChunking({1}, {200}, BOOLEAN)
  \/ PipeNext(0)
  \/ PipeShadowWriting(0, FewResults)
  \/ PipeQuality(0, FewVerdicts)
  \/ DeleteTask

SpecDelete == Init /\ [][DeleteNext]_vars

\* a pool of two keys with one caller at work, over every kind of failure,
\* with config.response_format set
FailuresNext ==
  \/ ClockAdvance
  \/ CallNext(1)
  \/ CallStart(1, FewCalls)
  \/ CompletionRetryable(1, RetryableErrors, {0, 96}, MaxPoolFailures)
  \/ CompletionFallback(1, RetryableErrors \cup {NonRetryable})
  \/ CompletionRaises(1)

SpecFailures == Init /\ [][FailuresNext]_vars

\* a pool of one key with concurrent callers whose attempts fail with rate
\* limits and connection errors
ConcurrentInit == SSEInit /\ TaskInit /\ KeyInit(<<"k1">>, 1..MaxCallers) /\ AuxInit

ConcurrentNext ==
  \/ ClockAdvance
  \/ \E c \in DOMAIN caller :
       \/ CallNext(c)
       \/ CallStart(c, MaxCallers)
       \/ CompletionRetryable(c, {"rate_limit", "connection"}, {-100, 96},
                              MaxKeyFailures)

SpecConcurrent == ConcurrentInit /\ [][ConcurrentNext]_vars

\* the event bus alone: publications as time passes
RingNext ==
  \/ Tick
  \/ Publish

SpecRing == Init /\ [][RingNext]_vars

\* the event bus and its background cleanup
CleanupNext ==
  \/ Tick
  \/ Publish
  \/ CleanupExpiredMessages

SpecCleanup == Init /\ [][CleanupNext]_vars

\* the lengths of the sentences of a transcript
SentenceLengths == {60, 100, 150, 260}

\* the transcripts handed to the chunker
Transcripts ==
  UNION {[1..n -> SentenceLengths] : n \in 1..MaxSentences}

ChunkingInit ==
  /\ SSEInit /\ TaskInit /\ KeyInit(PoolKeys, 1..MaxCallers)
  /\ CleanupInit /\ HealthInit(PoolKeys)
  /\ ChunkerInit(Transcripts)

SpecChunking == ChunkingInit /\ [][SplitIntoChunks]_vars

\* the start-up health check, then calls of the LLM client
HealthNext ==
  \/ CheckKeyHealth(PoolKeys, HealthOutcomes)
  \/ InitializeKeyManager(PoolKeys)
  \/ \E c \in DOMAIN caller :
       \/ CallAfterStartup(c, FewCalls)
       \/ GetKeyStart(c)
       \/ GetKeyScan(c)
       \/ GetKeyFound(c)
       \/ CompletionReturns(c)
       \/ CallEnds(c)

SpecHealth == Init /\ [][HealthNext]_vars

(* ------------------------------- claims ------------------------------- *)

\* C1: a client that subscribes with last_event_id = id of the stored event
\* e_k receives exactly the events published after e_k, in publish order, with
\* no duplicate and no gap: what it has received so far is always the events
\* k+1, k+2, ... of the publish history.
C1_ResumableReplay ==
  (stream.resumed /\ stream.pc \in {"replay", "poll", "closed"}) =>
     \A i \in 1..Len(stream.received) :
        stream.received[i].seq = stream.after + i

\* C2: the ids add_message gives to the successive events of a task are
\* strictly increasing.
C2_IdsStrictlyIncrease ==
  \A i, j \in 1..Len(published) :
     i < j => published[i].id < published[j].id

\* the pipelines that were spawned
Spawned == {c \in ChunkIds : pipe[c].pc # "absent"}

\* the increment_completed_chunk call of shadow_writing_single_chunk for chunk
\* c: it was made, its UPDATE was committed, it has returned
ShadowIncrementCalled(c) == pipe[c].raw_shadow # None
ShadowIncrementCommitted(c) ==
  ShadowIncrementCalled(c) /\ ~(pipe[c].pc = "shadow_writing" /\ pipe[c].inc = "update")
ShadowIncrementReturned(c) ==
  ShadowIncrementCalled(c) /\ pipe[c].pc # "shadow_writing"

\* the increment_completed_chunk call of finalize_single_chunk for chunk c
FinalizeIncrementCalled(c) ==
  \/ pipe[c].pc = "finalize_chunk" /\ pipe[c].inc # "none"
  \/ pipe[c].pc = "emit"
  \/ pipe[c].pc = "end" /\ pipe[c].final_shadow_chunks # <<>>
FinalizeIncrementCommitted(c) ==
  FinalizeIncrementCalled(c) /\ ~(pipe[c].pc = "finalize_chunk" /\ pipe[c].inc = "update")
FinalizeIncrementReturned(c) ==
  FinalizeIncrementCalled(c) /\ pipe[c].pc # "finalize_chunk"

\* the number of increment_completed_chunk calls made, committed, returned
IncrementsCalled ==
  Cardinality({c \in Spawned : ShadowIncrementCalled(c)})
  + Cardinality({c \in Spawned : FinalizeIncrementCalled(c)})
IncrementsCommitted ==
  Cardinality({c \in Spawned : ShadowIncrementCommitted(c)})
  + Cardinality({c \in Spawned : FinalizeIncrementCommitted(c)})
IncrementsReturned ==
  Cardinality({c \in Spawned : ShadowIncrementReturned(c)})
  + Cardinality({c \in Spawned : FinalizeIncrementReturned(c)})

\* C3: the increment_completed_chunk calls of the pipelines on the existing
\* task lose no increment, in any interleaving of their read, UPDATE and
\* re-read steps: completed_chunks is its initial value 0 (create, or
\* update_chunks_info before the fan-out) plus the number of committed UPDATEs,
\* so once the K calls made have all returned it is the initial value + K.
C3_NoIncrementLost ==
  task # NoTask =>
     /\ task.completed_chunks = 0 + IncrementsCommitted
     /\ (IncrementsReturned = IncrementsCalled =>
           task.completed_chunks = 0 + IncrementsCalled)

\* two calls that read the same value have both committed their UPDATE
C3_Witness ==
  \E c, d \in Spawned :
     /\ c # d
     /\ pipe[c].inc = "reread" /\ pipe[d].inc = "reread"
     /\ pipe[c].inc_current = pipe[d].inc_current
     /\ task.completed_chunks = pipe[c].inc_current + 1

\* C4: the progress of a task, as successive TaskDB.get calls return it, never
\* decreases over the task's life.
C4_ProgressNonDecreasing ==
  [][(task # NoTask /\ task' # NoTask) => task'.progress >= task.progress]_vars

\* C5: in every state of a task record, 0 <= completed_chunks <= total_chunks.
C5_CompletedWithinTotal ==
  task # NoTask =>
     /\ 0 <= task.completed_chunks
     /\ task.completed_chunks <= task.total_chunks

\* the chunk pipeline has left the quality stage with a verdict of the LLM
Scored(c) ==
  /\ pipe[c].pc \in {"correction", "finalize_chunk", "emit", "end"}
  /\ pipe[c].verdict # None

\* C6: quality_single_chunk sets quality_passed to true if and only if the
\* verdict has total_score >= 9 and step3_logic >= 2, whatever the value of
\* the pass field of the verdict.
C6_PassRuleIgnoresPassField ==
  \A c \in Spawned :
     Scored(c) =>
        (pipe[c].quality_passed <=>
           (pipe[c].verdict.total_score >= 9 /\ pipe[c].verdict.step3_logic >= 2))

\* C7: after a verdict with step3_logic < 2, whatever total_score and pass,
\* quality_passed is false, the pipeline is not in finalize_chunk (or beyond)
\* without the correction stage having run, and so no artifact of the chunk is
\* finalized without correction.
C7_LogicVeto ==
  \A c \in Spawned :
     (Scored(c) /\ pipe[c].verdict.step3_logic < 2) =>
        /\ ~pipe[c].quality_passed
        /\ (pipe[c].pc \in {"finalize_chunk", "emit", "end"} => pipe[c].ran_correction)
        /\ (pipe[c].final_shadow_chunks # <<>> => pipe[c].ran_correction)

\* a verdict that passes but for its logic score: the artifact was corrected
C7_Witness ==
  \E c \in Spawned :
     /\ Scored(c) /\ pipe[c].pc = "end"
     /\ pipe[c].verdict.step3_logic < 2
     /\ pipe[c].verdict.total_score >= 9 /\ pipe[c].verdict.pass
     /\ pipe[c].ran_correction
     /\ pipe[c].final_shadow_chunks # <<>>

\* the candidate of chunk c has an imitation of fewer than 8 words or a map
\* of 0 entries
BadCandidate(c) ==
  /\ pipe[c].raw_shadow # None
  /\ \/ pipe[c].raw_shadow.imitation.words < 8
     \/ (pipe[c].raw_shadow.map.dict /\ Len(pipe[c].raw_shadow.map.entries) = 0)

\* the artifacts of chunk c in the aggregate list
ArtifactsOf(c) ==
  Cardinality({i \in 1..Len(final_shadow_chunks) :
                 final_shadow_chunks[i].paragraph.id = c})

\* C8: a candidate whose imitation has fewer than 8 words, or whose map has 0
\* entries, is rejected by validation_single_chunk (validated_shadow = None),
\* and no artifact of that chunk is ever in final_shadow_chunks.
C8_BadCandidateRejected ==
  \A c \in Spawned :
     BadCandidate(c) =>
        /\ pipe[c].validated_shadow = None
        /\ pipe[c].final_shadow_chunks = <<>>
        /\ ArtifactsOf(c) = 0

\* a candidate that is valid but for its 7-word imitation went through the
\* pipeline
C8_Witness ==
  \E c \in Spawned :
     /\ pipe[c].pc = "end"
     /\ BadCandidate(c)
     /\ pipe[c].raw_shadow.imitation = ShortSentence
     /\ pipe[c].raw_shadow.original = LongSentence
     /\ pipe[c].raw_shadow.map = TwoEntryMap
     /\ pipe[c].raw_shadow.paragraph.chars >= 10

\* the bag (multiset) of the elements of a sequence
BagOfSeq(seq) ==
  [x \in {seq[i] : i \in 1..Len(seq)} |->
     Cardinality({i \in 1..Len(seq) : seq[i] = x})]

\* the bag of the artifacts finalized by the pipelines of the chunks 0..c
RECURSIVE FinalizedBag(_)
FinalizedBag(c) ==
  IF c < 0 THEN EmptyBag
  ELSE FinalizedBag(c - 1) (+)
       (IF pipe[c].pc = "absent" THEN EmptyBag
        ELSE BagOfSeq(pipe[c].final_shadow_chunks))

\* C9: in any interleaving of the pipelines, the aggregate final_shadow_chunks
\* is, as a multiset, exactly the union of the artifacts finalized by each
\* pipeline: none is lost, duplicated or overwritten.
C9_AggregateIsUnion ==
  BagOfSeq(final_shadow_chunks) = FinalizedBag(MaxChunks - 1)

\* the workflow has ended and two pipelines have each finalized an artifact
C9_Witness ==
  /\ wf.pc = "done"
  /\ Cardinality({c \in Spawned : pipe[c].final_shadow_chunks # <<>>}) >= 2
  /\ Len(final_shadow_chunks) >= 2

\* the chunk_completed events of chunk c: those on the bus and those the
\* stream writer took that are not yet forwarded
EventsOf(c) ==
  Cardinality({i \in 1..Len(published) :
                 published[i].type = "chunk_completed" /\ published[i].chunk = c})
  + Cardinality({i \in 1..Len(custom) :
                   custom[i].type = "chunk_completed" /\ custom[i].chunk_id = c})

\* the chunk_completed events published for the task
ChunkCompletedPublished ==
  Cardinality({i \in 1..Len(published) : published[i].type = "chunk_completed"})

\* the pipeline of chunk c has ended Finalized
Finalized(c) ==
  /\ pipe[c].pc = "end"
  /\ FinalResult(pipe[c].corrected_shadow, pipe[c].validated_shadow) # None

\* C10: a pipeline that ends Finalized has appended exactly one artifact and
\* caused exactly one chunk_completed event; any other pipeline (one whose
\* generate or validate stage failed, one that has not ended) has appended
\* none and caused none; once the stream has ended, the number of
\* chunk_completed events published equals the number of artifacts of the
\* aggregate and is at most the number of chunks.
C10_OneEventPerArtifact ==
  /\ \A c \in Spawned :
        /\ ArtifactsOf(c) = (IF Finalized(c) THEN 1 ELSE 0)
        /\ EventsOf(c) = (IF Finalized(c) THEN 1 ELSE 0)
  /\ wf.pc \in {"joined", "sleep", "completed", "history", "except", "failed", "done"} =>
        /\ ChunkCompletedPublished = Len(final_shadow_chunks)
        /\ ChunkCompletedPublished <= wf.total_chunks

\* the workflow has ended with one chunk Finalized and one whose validate (or
\* generate) stage failed
C10_Witness ==
  /\ wf.pc = "done"
  /\ \E c, d \in Spawned :
        /\ Finalized(c)
        /\ pipe[d].pc = "end" /\ pipe[d].validated_shadow = None
  /\ ChunkCompletedPublished = 1

\* C11: after n consecutive rate-limit failures on a key, the cooldown that
\* mark_failure sets is at least 2^(n-1) * 0.75 s and at most
\* 2^(n-1) * 1.25 + 1 s, both capped at 60 s: it never exceeds the 60 s cap.
C11_BackoffLaw ==
  \A k \in Keys :
     LET n == key_history[k].streak
         cooldown == key_history[k].cooldown_set
     IN cooldown > 0 =>
          /\ Min(60 * Second, 2 ^ (n - 1) * 75) <= cooldown
          /\ cooldown <= Min(60 * Second, 2 ^ (n - 1) * 125 + 1 * Second)

\* C12: in every interleaving of get_key, mark_failure and rotate_key calls,
\* the key get_key returns is not cooling at the time get_key returns it.
C12_NoCoolingKeyReturned ==
  \A c \in DOMAIN caller :
     caller[c].pc = "completion" => ~caller[c].ret_cooling

\* C13: when every key is cooling as get_key is called, it returns at the
\* earliest cooldown_until among all keys, with a key that has that earliest
\* cooldown_until; when some key is not cooling it returns a key that is not
\* cooling, at once.
C13_WaitsForEarliestKey ==
  \A c \in DOMAIN caller :
     caller[c].pc = "completion" =>
        IF caller[c].entry_all_cooling
        THEN /\ caller[c].ret_time = caller[c].entry_earliest
             /\ caller[c].key \in caller[c].entry_earliest_keys
        ELSE /\ caller[c].ret_time = caller[c].current_time
             /\ ~caller[c].ret_cooling

\* C14: a key the invalidation policy of the monitor has marked invalid is
\* not returned by get_key afterwards (with no valid key left, get_key fails
\* instead of returning one).
C14_InvalidKeyNotReturned ==
  \A c \in DOMAIN caller :
     caller[c].pc = "completion" => ~caller[c].ret_invalid

\* the successful calls served so far by the keys ks
RECURSIVE SumServed(_)
SumServed(ks) ==
  IF ks = {} THEN 0
  ELSE LET k == CHOOSE x \in ks : TRUE
       IN key_history[k].served + SumServed(ks \ {k})

\* C15: after a run of MaxCalls successful calls on M keys none of which ever
\* failed, the number of calls each key served is within 10% of MaxCalls / M.
C15_CallsSpreadEvenly ==
  (/\ SumServed(Keys) = MaxCalls
   /\ \A k \in Keys : manager.status[k].failure_count = 0) =>
     \A k \in Keys :
        LET M == Cardinality(Keys)
            d == key_history[k].served * M - MaxCalls
        IN 10 * (IF d >= 0 THEN d ELSE -d) <= MaxCalls

\* the deadline of a chunk stage (spec 4.3: 120 s per chunk stage)
StageDeadline == 120 * Second

\* C16: a call of call_fn ends with a result or an error: its retry loop makes
\* no further attempt (no key is handed to it for another completion) once
\* the stage deadline has passed since the call began.
C16_RetryLoopEndsByDeadline ==
  \A c \in DOMAIN caller :
     caller[c].pc = "completion" =>
        caller[c].ret_time - caller[c].started <= StageDeadline

\* the types that end a stream (spec 4.5)
Terminal(type) == type \in {"completed", "failed"}

\* C17: progress_stream closes the stream upon sending a terminal event
\* (completed or failed), in the replay of the cached events as in the
\* polling phase: no event sent before the last one is terminal, and the
\* stream is not polling after it has sent a terminal event.
C17_ClosesOnTerminalEvent ==
  /\ \A i \in 1..(Len(stream.received) - 1) : ~Terminal(stream.received[i].type)
  /\ stream.pc = "poll" =>
        \A i \in 1..Len(stream.received) : ~Terminal(stream.received[i].type)

\* the events published for the task that report its failure: the failed
\* events, and the error events of the workflow's except clause
FailedEvents ==
  {i \in 1..Len(published) : published[i].type \in {"failed", "error"}}

\* C18: once a task has failed, exactly one event that reports the failure
\* has been published for it, and its record has status failed and
\* progress = 100.
C18_OneFailedEventAndFullProgress ==
  (wf.pc = "done" /\ task.status = "failed") =>
     /\ Cardinality(FailedEvents) = 1
     /\ task.progress = 100

\* the chunks whose pipeline ended Finalized
FinalizedChunks == {c \in Spawned : Finalized(c)}

\* C19: a task that ends with every chunk pipeline Failed (no artifact) has
\* status failed; a task that ends with some chunks Finalized and some Failed,
\* and without an error of the workflow itself, has status completed.
C19_FailedOnlyWithoutArtifacts ==
  (wf.pc = "done" /\ wf.total_chunks >= 1) =>
     /\ FinalizedChunks = {} => task.status = "failed"
     /\ (FinalizedChunks # {} /\ FinalizedChunks # Spawned /\ ~task.error) =>
           task.status = "completed"

\* the name of an event type in the list of spec 4.8: processing_started and
\* processing_completed are the started and completed events of the workflow
EventName(type) ==
  CASE type = "processing_started" -> "started"
    [] type = "processing_completed" -> "completed"
    [] OTHER -> type

\* the types of the events published for the task, in the order of publication
PublishedTypes == [i \in 1..Len(published) |-> EventName(published[i].type)]

\* the event sequence of a successful task with k finalized chunks
ExpectedTypes(k) ==
  <<"started", "semantic_chunks_completed", "chunks_processing_started">>
  \o [i \in 1..k |-> "chunk_completed"]
  \o <<"chunking_completed", "completed">>

\* C20: the events published for a successful task are, in this order:
\* started, semantic_chunks_completed, chunks_processing_started, one
\* chunk_completed per finalized chunk, chunking_completed, completed.
C20_EventOrder ==
  (wf.pc = "done" /\ task.status = "completed") =>
     PublishedTypes = ExpectedTypes(Cardinality(FinalizedChunks))

\* C21: when a task completes, the completed_chunks of its record equals the
\* number of chunks whose pipeline ended Finalized (one increment per
\* Finalized chunk, none for a Failed one).
C21_CompletedCountsFinalized ==
  (wf.pc = "done" /\ task.status = "completed") =>
     task.completed_chunks = Cardinality(FinalizedChunks)

\* the progress of a task record as a function of its status and counters
\* (spec 3 and 4.4): 20 + 60 * completed / total while the chunks are processed
ProgressOf(status, completed_chunks, total_chunks) ==
  CASE status = "pending" -> 0
    [] status = "parsing" -> 10
    [] status = "semantic_chunk" -> 20
    [] status = "shadow_writing" ->
         IF total_chunks > 0 THEN 20 + (completed_chunks * 60) \div total_chunks
         ELSE 20
    [] status = "quality_check" -> 80
    [] status = "completed" -> 100
    [] status = "failed" -> 100
    [] OTHER -> 0

\* C22: in every state of the task record, the stored progress is the
\* progress function of the stored status, completed_chunks and total_chunks.
C22_ProgressIsFunctionOfRecord ==
  task # NoTask =>
     task.progress = ProgressOf(task.status, task.completed_chunks, task.total_chunks)

\* C23: after a run of the background cleanup, no queue is left whose last
\* activity was older than the TTL at that run (the cleanup has removed its
\* entries of message_queues and task_timestamps).
C23_ExpiredQueueRemoved ==
  cleanup.ran =>
     ~(task_timestamps # 0 /\ cleanup.at - task_timestamps > message_ttl)

\* C24: the queue of a task holds at most max_messages_per_task events, and
\* they are the most recently published events of the task in publish order.
C24_RingKeepsNewest ==
  LET n == Len(published)
      k == Min(n, max_messages_per_task)
  IN /\ Len(message_queues) <= max_messages_per_task
     /\ message_queues = SubSeq(published, n - k + 1, n)

\* more events were published than the ring holds: the oldest were dropped
C24_Witness ==
  /\ Len(published) > max_messages_per_task
  /\ Len(message_queues) = max_messages_per_task
  /\ message_queues[1] # published[1]

\* C25: get_messages(task_id, after_id), for the id of a stored event, returns
\* exactly the stored events published after that event, in publish order; with
\* no after_id it returns all stored events.
C25_GetMessagesAfterId ==
  /\ get_messages(NoId) = message_queues
  /\ \A k \in 1..Len(message_queues) :
        get_messages(message_queues[k].id)
          = SubSeq(message_queues, k + 1, Len(message_queues))

\* the callers whose request to the provider is in flight
InFlight == {c \in DOMAIN caller : caller[c].pc = "completion"}

\* C26: at every moment at most max_concurrent requests to the provider are
\* in flight.
C26_InFlightWithinLimit == Cardinality(InFlight) <= max_concurrent

\* C27: every chunk split_into_chunks returns, the last one (the remainder of
\* the transcript) aside, has between 150 and 250 characters, unless it is one
\* sentence that alone exceeds 250 characters.
C27_ChunkLengthInRange ==
  chunker.pc = "returned" =>
     \A i \in 1..(Len(chunker.chunks) - 1) :
        LET chunk == chunker.chunks[i]
        IN \/ (min_chunk_size <= chunk.chars /\ chunk.chars <= max_chunk_size)
           \/ (chunk.sentences = 1 /\ chunk.chars > max_chunk_size)

\* C28: a key whose cold-start health check failed with a permanent error is
\* not returned by a later get_key of the LLM client.
C28_PermanentlyInvalidKeyNotReturned ==
  \A c \in DOMAIN caller :
     caller[c].pc = "completion" => health.outcome[caller[c].key] # "permanent"

\* the calls of call_fn on key k that failed with a rate-limit error (where
\* every retryable failure is a rate-limit error, failure_count counts them)
RateLimitFailures(k) == manager.status[k].failure_count

\* C29: the monitor's rate_limit_hits of a key equals the number of calls of
\* the LLM client on that key that failed with a rate-limit error.
C29_RateLimitHitsCounted ==
  \A k \in Keys : monitor[k].rate_limit_hits = RateLimitFailures(k)

\* the chunk_completed events published for chunk c
PublishedFor(c) ==
  Cardinality({i \in 1..Len(published) :
                 published[i].type = "chunk_completed" /\ published[i].chunk = c})

\* C30: an error in one chunk's pipeline stays local: once the stream has
\* ended every pipeline has reached its own end, every Finalized chunk has
\* its artifact in the aggregate and its chunk_completed event published,
\* and a task with chunks has status failed only after it had completed (the
\* failure of the history insert), never because of a chunk.
C30_ChunkErrorsStayLocal ==
  /\ wf.pc \in {"joined", "sleep", "completed", "history", "done"} =>
        \A c \in Spawned :
           /\ pipe[c].pc = "end"
           /\ Finalized(c) => (ArtifactsOf(c) = 1 /\ PublishedFor(c) = 1)
  /\ (task # NoTask /\ task.status = "failed" /\ wf.total_chunks >= 1) =>
        \E i \in 1..Len(published) : published[i].type = "processing_completed"

\* a task has completed with one chunk whose generate stage failed and one
\* Finalized chunk whose event is published
C30_Witness ==
  /\ wf.pc = "done" /\ task.status = "completed"
  /\ \E c, d \in Spawned :
        /\ Finalized(c) /\ PublishedFor(c) = 1
        /\ pipe[d].pc = "end" /\ pipe[d].raw_shadow = None

\* the row of the task was deleted: the task was created and has no row
Deleted == wf.pc # "new" /\ task = NoTask

\* C31: after TaskDB.delete(task_id), get(task_id) returns no record in every
\* later state, whatever update, update_progress, update_chunks_info or
\* increment_completed_chunk calls the running workflow makes afterwards: no
\* step puts the row back, and an increment_completed_chunk called by
\* finalize_single_chunk on the deleted task returns 0.
C31_DeletedStaysDeleted ==
  [][Deleted =>
       /\ task' = NoTask
       /\ \A c \in ChunkIds :
            (pipe[c].pc = "finalize_chunk" /\ pipe[c].inc = "none"
             /\ pipe'[c].pc = "emit") => pipe'[c].completed_chunks = 0]_vars

\* the task was deleted before finalize_single_chunk made its increment, which
\* returned 0
C31_Witness ==
  /\ Deleted
  /\ \E c \in Spawned : pipe[c].pc = "emit" /\ pipe[c].completed_chunks = 0

\* the edges of the chunk pipeline graph (START -> shadow_writing ->
\* validation -> quality -> correction or finalize_chunk, correction ->
\* finalize_chunk -> END), by the positions of a pipeline: "sent" is START,
\* "emit" is the second half of the finalize_chunk node, "end" is END
PipelineEdges ==
  {<<"sent", "shadow_writing">>, <<"shadow_writing", "validation">>,
   <<"validation", "quality">>, <<"quality", "correction">>,
   <<"quality", "finalize_chunk">>, <<"correction", "finalize_chunk">>,
   <<"finalize_chunk", "emit">>, <<"finalize_chunk", "end">>, <<"emit", "end">>}

\* C32: within one chunk pipeline the stages run in the order shadow_writing,
\* validation, quality, then correction only if quality_passed is false, then
\* finalize_chunk: every change of a pipeline's position follows an edge of
\* this order, which has no way back, so each stage runs at most once and
\* correction is a single pass.
C32_StagesStrictlyOrdered ==
  [][\A c \in ChunkIds :
       (pipe[c].pc # "absent" /\ pipe'[c].pc # pipe[c].pc) =>
          /\ <<pipe[c].pc, pipe'[c].pc>> \in PipelineEdges
          /\ pipe[c].pc = "quality" =>
                (pipe'[c].pc = "correction" <=> ~pipe'[c].quality_passed)
          /\ pipe[c].pc = "correction" => ~pipe[c].ran_correction]_vars

\* a pipeline has ended after its single correction pass
C32_Witness ==
  \E c \in Spawned :
     /\ pipe[c].pc = "end"
     /\ pipe[c].ran_correction /\ ~pipe[c].quality_passed
     /\ pipe[c].final_shadow_chunks # <<>>

\* C33: after a successful provider call with key K, the consecutive-failure
\* count of K is 0, so the next rate-limit failure on K is treated as the
\* first one: its cooldown has the base 2^0 = 1 s (at most 1.25 s with the
\* jitter), whatever number of failures K had before the success.
C33_SuccessResetsFailureCount ==
  /\ \A c \in DOMAIN caller :
        caller[c].pc = "returned" =>
           manager.status[caller[c].key].failure_count = 0
  /\ \A k \in Keys :
        (key_history[k].streak = 1 /\ key_history[k].cooldown_set > 0) =>
           key_history[k].cooldown_set <= (1 * Second * 125) \div 100

\* C34: after every retriable failure of a provider attempt, call_fn has
\* called mark_failure exactly once for the key it used, and the pool has set
\* that key's cooldown and rotated its head cursor before the client's next
\* acquire: the client never goes back to get_key without a cooldown and a
\* rotation in between.
C34_FailureCoolsAndRotates ==
  [][\A c \in DOMAIN caller :
       (caller[c].pc = "completion" /\ caller'[c].pc = "get_key") =>
          LET key == caller[c].key
          IN /\ manager'.status[key].failure_count
                  = manager.status[key].failure_count + 1
             /\ manager'.status[key].cooldown_until > clock
             /\ manager'.total_switches = manager.total_switches + 1]_vars

\* C38: for each key, cooldown_until never decreases from one mark_failure to
\* the next: every further rate-limit or transient failure recorded on a key,
\* in any timing of successive or concurrent failures, leaves its
\* cooldown_until greater than or equal to the value it had before.
C38_CooldownNeverDecreases ==
  [][\A k \in Keys :
       manager'.status[k].failure_count > manager.status[k].failure_count =>
          manager'.status[k].cooldown_until >= manager.status[k].cooldown_until]_vars

\* C35: mark_failure with an error classified as other (neither rate limit
\* nor transient network) sets no cooldown and does not rotate: the
\* cooldown_until of every key, the order of the key queue and total_switches
\* are unchanged by the call.
C35_OtherErrorLeavesPoolAlone ==
  [][\A c \in DOMAIN caller :
       (caller[c].pc = "completion" /\ caller'[c].pc = "get_key"
        /\ caller'[c].last_error = "other") =>
          /\ manager'.keys = manager.keys
          /\ manager'.total_switches = manager.total_switches
          /\ \A k \in Keys :
               manager'.status[k].cooldown_until = manager.status[k].cooldown_until]_vars

\* after a rate limit on one key had set its cooldown and rotated the queue,
\* mark_failure was called for the other key with an error classified as
\* other: the first key is still cooling and the second one is still the head
C35_Witness ==
  \E c \in DOMAIN caller :
     /\ caller[c].pc = "get_key" /\ caller[c].last_error = "other"
     /\ manager.keys[1] = caller[c].key
     /\ manager.status[caller[c].key].failure_count = 1
     /\ manager.total_switches = 1
     /\ \E k \in Keys \ {caller[c].key} : manager.status[k].cooldown_until > clock

\* C36: for a failure classified as transient_network (and not rate limit),
\* the cooldown mark_failure sets follows min(30 s, 2^(n - 1)) plus jitter
\* (within 25 %) at the n-th consecutive failure of the key, the first one
\* having the base 2^0 = 1 s or the starting base 5 s: it grows with the
\* consecutive failures up to the 30 s cap.
C36_NetworkBackoffLaw ==
  [][\A c \in DOMAIN caller :
       (caller[c].pc = "completion" /\ caller'[c].pc = "get_key"
        /\ caller'[c].last_error = "connection"
        /\ key_history[caller[c].key].served = 0) =>
          LET key == caller[c].key
              n == manager'.status[key].failure_count
              cooldown == manager'.status[key].cooldown_until - clock
              law == Min(30, 2 ^ (n - 1))
              Within(base) ==
                base * 75 <= cooldown /\ cooldown <= base * 125
          IN IF n = 1 THEN Within(1) \/ Within(5) ELSE Within(law)]_vars

\* C37: when a provider attempt fails with a non-retriable error, call_fn
\* raises that error at once: the step in which it raises leaves the key pool
\* (cooldowns, failure counts, key order) unchanged, and no attempt that
\* failed with a non-retriable error is followed by a further provider attempt
\* of the same call.
C37_NonRetriableRaisesAtOnce ==
  [][\A c \in DOMAIN caller :
       caller[c].pc = "completion" =>
          /\ caller'[c].pc = "raised" => manager' = manager
          /\ ~(caller[c].fallback_error = ""
               /\ caller'[c].fallback_error = NonRetryable
               /\ caller'[c].pc = "completion")]_vars

\* C39: finalize_single_chunk changes nothing task-scoped except appending the
\* chosen artifact to final_shadow_chunks and emitting chunk_completed: a step
\* of the finalize stage of a chunk leaves the task record and the other
\* fields of the workflow state as they are, and for a chunk without valid
\* artifact it also leaves the aggregate and the stream of events as they are.
C39_FinalizeWritesOnlyAggregate ==
  [][\A c \in ChunkIds :
       (pipe[c].pc \in {"finalize_chunk", "emit"} /\ pipe'[c] # pipe[c]) =>
          /\ task' = task
          /\ wf' = wf
          /\ FinalResult(pipe[c].corrected_shadow, pipe[c].validated_shadow) = None =>
                (final_shadow_chunks' = final_shadow_chunks /\ custom' = custom)]_vars

\* C40: once the task's status is completed or failed no later write changes
\* it, and once the terminal event (processing_completed or error) of the
\* task has been published no further event is published for the task; a
\* failure of the history write after completion is covered as well.
C40_TerminalStatusAbsorbing ==
  [][/\ (task # NoTask /\ task.status \in {"completed", "failed"}
           /\ task' # NoTask)
          => task'.status = task.status
     /\ (\E i \in 1..Len(published) :
           published[i].type \in {"processing_completed", "error"})
          => published' = published]_vars

====
